---- MODULE Spec2Model ----
(***************************************************************************)
(* panphon/segment.py: class Segment, a phonological segment as a vector   *)
(* of features over an ordered list of feature names.                      *)
(*                                                                         *)
(* Python strings are sequences of one-character strings, so that the      *)
(* notation scan, the two-character test of dict.update and the rendering  *)
(* of __repr__ are computed character by character.  Python values are     *)
(* tagged records (an int, a str, None), so that values of different types *)
(* compare unequal as they do in Python.  A call returns Ok(value) or      *)
(* Raise(exception).                                                       *)
(***************************************************************************)
EXTENDS Integers, Sequences, FiniteSets, TLC

VARIABLES engine, seg, src, last, nops

vars == <<engine, seg, src, last, nops>>

(* ---------------------------------------------------------------------- *)
(* Python values and call results                                          *)
(* ---------------------------------------------------------------------- *)
I(i) == [int |-> i]

S(s) == [str |-> s]

PyNone == [none |-> TRUE]

IsInt(x) == DOMAIN x = {"int"}

Ok(v) == [ok |-> v]

Raise(e) == [exc |-> e]

IsOk(r) == DOMAIN r = {"ok"}

(* the float n / d of Python's true division, kept as the exact quotient *)
Quot(n, d) == [num |-> n, den |-> d]

Range(s) == {s[i] : i \in 1..Len(s)}

Min(x, y) == IF x <= y THEN x ELSE y

Abs(x) == IF x < 0 THEN -x ELSE x

(* d[k] = v on a dict *)
Put(d, k, v) == [x \in DOMAIN d \cup {k} |-> IF x = k THEN v ELSE d[x]]

EmptyDict == [k \in {} |-> PyNone]

(* ---------------------------------------------------------------------- *)
(* The per-instance translation tables                                     *)
(* ---------------------------------------------------------------------- *)
n2s == (I(-1) :> "-") @@ (I(0) :> "0") @@ (I(1) :> "+")

s2n == [c \in {n2s[v] : v \in DOMAIN n2s} |-> CHOOSE v \in DOMAIN n2s : n2s[v] = c]

(* ---------------------------------------------------------------------- *)
(* The notation scan: re.finditer('(+|0|-)(\w+)', ftstr)                   *)
(*                                                                         *)
(* The pattern literal opens its first group with a bare '+'.  The regex   *)
(* package is imported, not part of the repository: an engine either       *)
(* rejects such a pattern when it compiles it (the call then raises for    *)
(* every ftstr, the empty one included), or reads the '+' as a literal     *)
(* character, which is the pattern the docstring describes.  engine is     *)
(* that outcome, fixed for a run.                                          *)
(* ---------------------------------------------------------------------- *)
Engines == {"rejects", "literal"}

(* \w over the alphabet used here: letters, the digit 0, the underscore *)
WordChars ==
    {"a", "c", "d", "e", "i", "l", "n", "o", "r", "s", "u", "v", "x", "0", "_"}

IsWordChar(c) == c \in WordChars

(* the last index of the run of word characters that starts at i *)
RECURSIVE WordRunEnd(_, _)
WordRunEnd(s, i) ==
    IF i < Len(s) /\ IsWordChar(s[i + 1]) THEN WordRunEnd(s, i + 1) ELSE i

(* the non-overlapping matches from position i on, leftmost first, each   *)
(* <<symbol, name>>; \w+ is greedy and takes the whole word run           *)
RECURSIVE Matches(_, _)
Matches(s, i) ==
    IF i > Len(s) THEN <<>>
    ELSE IF s[i] \in {"+", "0", "-"} /\ i < Len(s) /\ IsWordChar(s[i + 1])
         THEN LET e == WordRunEnd(s, i + 1)
              IN  <<<<s[i], SubSeq(s, i + 1, e)>>>> \o Matches(s, e + 1)
         ELSE Matches(s, i + 1)

finditer(ftstr) ==
    IF engine = "rejects" THEN Raise("regex.error") ELSE Ok(Matches(ftstr, 1))

(* ---------------------------------------------------------------------- *)
(* Construction                                                            *)
(* ---------------------------------------------------------------------- *)
(* a faulty variant of DefaultFill: names missing from features get no entry *)
DefaultFillSkipsUnspecified(names, features) ==
    [k \in Range(names) \cap DOMAIN features |-> features[k]]

(* a faulty variant of DefaultFill: every name starts at 0, features is ignored *)
DefaultFillIgnoresFeatures(names, features) ==
    [k \in Range(names) |-> I(0)]

DefaultFill(names, features) ==
    [k \in Range(names) |-> IF k \in DOMAIN features THEN features[k] ELSE I(0)]

(* for m in matches: v, k = m.groups(); data[k] = s2n[v] *)
RECURSIVE ApplyMatches(_, _, _)
ApplyMatches(data, ms, i) ==
    IF i > Len(ms) THEN data
    ELSE ApplyMatches(Put(data, ms[i][2], s2n[ms[i][1]]), ms, i + 1)

__init__(names, features, ftstr) ==
    LET filled == DefaultFill(names, features)
        ms == finditer(ftstr)
    IN  IF IsOk(ms)
        THEN Ok([names |-> names, data |-> ApplyMatches(filled, ms.ok, 1)])
        ELSE ms

(* ---------------------------------------------------------------------- *)
(* Field access                                                            *)
(* ---------------------------------------------------------------------- *)
MissingKey == Raise("KeyError")

UnknownFeatureName == Raise("KeyError: Unknown feature name.")

__getitem__(self, key) ==
    IF key \in DOMAIN self.data THEN Ok(self.data[key]) ELSE MissingKey

(* a faulty variant of __setitem__: no membership test *)
SetItemUnchecked(self, key, value) ==
    [self |-> [self EXCEPT !.data = Put(self.data, key, value)], res |-> Ok(PyNone)]

(* a mutator returns the object after the call and the call's result *)
__setitem__(self, key, value) ==
    IF key \in Range(self.names)
    THEN [self |-> [self EXCEPT !.data = Put(self.data, key, value)],
          res |-> Ok(PyNone)]
    ELSE [self |-> self, res |-> UnknownFeatureName]

__iter__(self) == Ok(self.names)

(* [(k, self.data[k]) for k in self.names] *)
items(self) ==
    IF \E i \in 1..Len(self.names) : self.names[i] \notin DOMAIN self.data
    THEN MissingKey
    ELSE Ok([i \in 1..Len(self.names) |->
                <<self.names[i], self.data[self.names[i]]>>])

(* the same pairs, produced lazily *)
iteritems(self) == items(self)

(* [self.data[k] for k in self.names] *)
numeric(self) ==
    IF \E i \in 1..Len(self.names) : self.names[i] \notin DOMAIN self.data
    THEN MissingKey
    ELSE Ok([i \in 1..Len(self.names) |-> self.data[self.names[i]]])

(* a faulty variant of string: a value outside the table is rendered as '0' *)
StringDefaultsToZero(self) ==
    LET nums == numeric(self)
    IN  IF ~IsOk(nums) THEN nums
        ELSE Ok([i \in 1..Len(nums.ok) |->
                    IF nums.ok[i] \in DOMAIN n2s THEN n2s[nums.ok[i]] ELSE "0"])

(* map(lambda x: self.n2s[x], self.numeric()), materialised: the lookup of *)
(* a value outside the table raises KeyError, in the call where map is     *)
(* eager and when the result is consumed where map is lazy                 *)
string(self) ==
    LET nums == numeric(self)
    IN  IF ~IsOk(nums) THEN nums
        ELSE IF \E i \in 1..Len(nums.ok) : nums.ok[i] \notin DOMAIN n2s
             THEN MissingKey
             ELSE Ok([i \in 1..Len(nums.ok) |-> n2s[nums.ok[i]]])

(* sep.join(parts) *)
RECURSIVE Join(_, _)
Join(parts, sep) ==
    IF Len(parts) = 0 THEN <<>>
    ELSE IF Len(parts) = 1 THEN parts[1]
         ELSE parts[1] \o sep \o Join(Tail(parts), sep)

__repr__(self) ==
    LET ns == self.names
    IN  IF \E i \in 1..Len(ns) :
                  \/ ns[i] \notin DOMAIN self.data
                  \/ self.data[ns[i]] \notin DOMAIN n2s
        THEN MissingKey
        ELSE LET fts == Join([i \in 1..Len(ns) |-> <<n2s[self.data[ns[i]]]>> \o ns[i]],
                             <<",", " ">>)
             IN  Ok(<<"[">> \o fts \o <<"]">>)

(* ---------------------------------------------------------------------- *)
(* update: self.data.update(segment)                                       *)
(*                                                                         *)
(* dict.update takes the pairs of an argument that has a keys method (a    *)
(* dict).  A Segment has none: dict.update then iterates it, which yields  *)
(* its feature names, and reads each element as a (key, value) pair, so a  *)
(* two-character name "xy" stores data["x"] = "y" and any other length     *)
(* raises ValueError, the pairs before it staying stored.                  *)
(* ---------------------------------------------------------------------- *)
DictArg(d) == [dict |-> d]

SegmentArg(s) == [segment |-> s]

RECURSIVE MergeFromSeq2(_, _, _)
MergeFromSeq2(data, elems, i) ==
    IF i > Len(elems) THEN [data |-> data, res |-> Ok(PyNone)]
    ELSE IF Len(elems[i]) # 2 THEN [data |-> data, res |-> Raise("ValueError")]
         ELSE MergeFromSeq2(Put(data, <<elems[i][1]>>, S(<<elems[i][2]>>)),
                            elems, i + 1)

(* a faulty variant of update: data is replaced by the argument's pairs *)
UpdateReplacesData(self, arg) ==
    IF "dict" \in DOMAIN arg
    THEN [self |-> [self EXCEPT !.data = arg.dict], res |-> Ok(PyNone)]
    ELSE LET m == MergeFromSeq2(EmptyDict, arg.segment.names, 1)
         IN  [self |-> [self EXCEPT !.data = m.data], res |-> m.res]

update(self, arg) ==
    IF "dict" \in DOMAIN arg
    THEN [self |-> [self EXCEPT !.data = arg.dict @@ self.data], res |-> Ok(PyNone)]
    ELSE LET m == MergeFromSeq2(self.data, __iter__(arg.segment).ok, 1)
         IN  [self |-> [self EXCEPT !.data = m.data], res |-> m.res]

(* ---------------------------------------------------------------------- *)
(* Structural operations                                                   *)
(* ---------------------------------------------------------------------- *)
(* all([self.data[k] == v for (k, v) in features.items()]): features is    *)
(* no parameter, local or module-level name, so its lookup raises          *)
(* NameError before other is read                                          *)
match(self, other) == Raise("NameError")

__ge__(self, other) == match(self, other)

Pairs(d) == {<<k, d[k]>> : k \in DOMAIN d}

DictOf(ps) == [k \in {p[1] : p \in ps} |-> (CHOOSE p \in ps : p[1] = k)[2]]

(* a faulty variant of intersection: shared keys, with self's values *)
IntersectionByKey(self, other) ==
    Ok([k \in DOMAIN self.data \cap DOMAIN other.data |-> self.data[k]])

(* dict(set(self.data.items()) & set(other.data.items())) *)
intersection(self, other) == Ok(DictOf(Pairs(self.data) \cap Pairs(other.data)))

__and__(self, other) == intersection(self, other)

(* ---------------------------------------------------------------------- *)
(* Distance metrics                                                        *)
(* ---------------------------------------------------------------------- *)
RECURSIVE SumTo(_, _)
SumTo(f, n) == IF n = 0 THEN 0 ELSE f[n] + SumTo(f, n - 1)

(* sum(abs(a - b) for (a, b) in zip(self.numeric(), other.numeric())):     *)
(* zip stops at the shorter list; the difference of a str raises TypeError *)
distance(self, other) ==
    LET a == numeric(self)
        b == numeric(other)
    IN  IF ~IsOk(a) THEN a
        ELSE IF ~IsOk(b) THEN b
        ELSE LET n == Min(Len(a.ok), Len(b.ok))
             IN  IF \E i \in 1..n : ~(IsInt(a.ok[i]) /\ IsInt(b.ok[i]))
                 THEN Raise("TypeError")
                 ELSE Ok(I(SumTo([i \in 1..n |-> Abs(a.ok[i].int - b.ok[i].int)], n)))

(* a faulty variant of norm_distance: integer division *)
NormDistanceFloorDiv(self, other) ==
    LET d == distance(self, other)
    IN  IF ~IsOk(d) THEN d
        ELSE IF Len(self.names) = 0 THEN Raise("ZeroDivisionError")
             ELSE Ok(Quot(d.ok.int \div Len(self.names), 1))

(* self.distance(other) / len(self.names), a true division *)
norm_distance(self, other) ==
    LET d == distance(self, other)
    IN  IF ~IsOk(d) THEN d
        ELSE IF Len(self.names) = 0 THEN Raise("ZeroDivisionError")
             ELSE Ok(Quot(d.ok.int, Len(self.names)))

__sub__(self, other) == norm_distance(self, other)

(* sum(int(a != b) for (a, b) in zip(self.numeric(), other.numeric())) *)
hamming_distance(self, other) ==
    LET a == numeric(self)
        b == numeric(other)
    IN  IF ~IsOk(a) THEN a
        ELSE IF ~IsOk(b) THEN b
        ELSE LET n == Min(Len(a.ok), Len(b.ok))
             IN  Ok(I(SumTo([i \in 1..n |-> IF a.ok[i] # b.ok[i] THEN 1 ELSE 0], n)))

norm_hamming_distance(self, other) ==
    LET d == hamming_distance(self, other)
    IN  IF ~IsOk(d) THEN d
        ELSE IF Len(self.names) = 0 THEN Raise("ZeroDivisionError")
             ELSE Ok(Quot(d.ok.int, Len(self.names)))

(* ---------------------------------------------------------------------- *)
(* Inputs                                                                  *)
(* ---------------------------------------------------------------------- *)
Kv == <<"v">>

Kvn == <<"v", "n">>

Kx == <<"x">>

voice == <<"v", "o", "i", "c", "e">>

nasal == <<"n", "a", "s", "a", "l">>

round == <<"r", "o", "u", "n", "d">>

(* the schemas: none, one with a two-character name, the documented one *)
NoNames == <<>>

VnV == <<Kvn, Kv>>

VNR == <<voice, nasal, round>>

EmptyStr == <<>>

(* "+voice-nasal0round" and "-voice-nasal0round" *)
NotationA == <<"+">> \o voice \o <<"-">> \o nasal \o <<"0">> \o round

NotationB == <<"-">> \o voice \o <<"-">> \o nasal \o <<"0">> \o round

(* "+voice, -nasal, 0round" *)
NotationSeparated ==
    <<"+">> \o voice \o <<",", " ", "-">> \o nasal \o <<",", " ", "0">> \o round

(* "", "+v", "-vn0v", "0v,+v" *)
Notations == {EmptyStr, <<"+", "v">>, <<"-", "v", "n", "0", "v">>,
              <<"0", "v", ",", "+", "v">>}

FeatureMaps == UNION {[K -> {I(-1), I(2)}] : K \in SUBSET {Kv, Kvn}}

Args(names, features, ftstr) ==
    [names |-> names, features |-> features, ftstr |-> ftstr]

CtorArgs ==
    {Args(VnV, f, n) : f \in FeatureMaps, n \in Notations}
    \cup {Args(NoNames, EmptyDict, n) : n \in {EmptyStr, <<"+", "x">>}}
    \cup {Args(VNR, EmptyDict, n) : n \in {NotationA, NotationB, NotationSeparated}}

SetKeys == {Kv, Kx}

SetVals == {I(1), I(2)}

UpdateDicts == {Kx :> I(2), (Kv :> I(-1)) @@ (Kx :> I(0))}

(* the most mutating calls made on a *)
MaxOps == 2

(* ---------------------------------------------------------------------- *)
(* The state machine: two names a and b, each bound by one constructor     *)
(* call; a is then mutated, b is the other operand.  src[t] is the         *)
(* constructor call that made t while no mutating call has reached it,     *)
(* last is the most recent call.  The queries are the operators above.     *)
(* ---------------------------------------------------------------------- *)
Objs == {"a", "b"}

NoSegment == [absent |-> TRUE]

NoArgs == [absent |-> TRUE]

Bound(t) == seg[t] # NoSegment

Init ==
    /\ engine \in Engines
    /\ seg = [t \in Objs |-> NoSegment]
    /\ src = [t \in Objs |-> NoArgs]
    /\ last = [op |-> "none"]
    /\ nops = 0

(* t = Segment(names, features, ftstr) *)
Construct(t, c) ==
    /\ ~Bound(t)
    /\ LET r == __init__(c.names, c.features, c.ftstr)
       IN  /\ seg' = IF IsOk(r) THEN [seg EXCEPT ![t] = r.ok] ELSE seg
           /\ src' = IF IsOk(r) THEN [src EXCEPT ![t] = c] ELSE src
           /\ last' = [op |-> "__init__", obj |-> t, args |-> c,
                       res |-> IF IsOk(r) THEN Ok(PyNone) ELSE r]
    /\ UNCHANGED <<engine, nops>>

(* a[key] = value *)
SetItem(key, value) ==
    /\ Bound("a")
    /\ nops < MaxOps
    /\ LET r == __setitem__(seg["a"], key, value)
       IN  /\ seg' = [seg EXCEPT !["a"] = r.self]
           /\ last' = [op |-> "__setitem__", obj |-> "a", args |-> <<key, value>>,
                       res |-> r.res]
    /\ src' = [src EXCEPT !["a"] = NoArgs]
    /\ nops' = nops + 1
    /\ UNCHANGED engine

(* a.update(d), d a dict *)
UpdateDict(d) ==
    /\ Bound("a")
    /\ nops < MaxOps
    /\ LET r == update(seg["a"], DictArg(d))
       IN  /\ seg' = [seg EXCEPT !["a"] = r.self]
           /\ last' = [op |-> "update", obj |-> "a", args |-> DictArg(d),
                       res |-> r.res]
    /\ src' = [src EXCEPT !["a"] = NoArgs]
    /\ nops' = nops + 1
    /\ UNCHANGED engine

(* a.update(u), u a Segment (a itself, or b) *)
UpdateSegment(u) ==
    /\ Bound("a")
    /\ Bound(u)
    /\ nops < MaxOps
    /\ LET r == update(seg["a"], SegmentArg(seg[u]))
       IN  /\ seg' = [seg EXCEPT !["a"] = r.self]
           /\ last' = [op |-> "update", obj |-> "a", args |-> SegmentArg(seg[u]),
                       res |-> r.res]
    /\ src' = [src EXCEPT !["a"] = NoArgs]
    /\ nops' = nops + 1
    /\ UNCHANGED engine

Next ==
    \/ \E t \in Objs, c \in CtorArgs : Construct(t, c)
    \/ \E key \in SetKeys, value \in SetVals : SetItem(key, value)
    \/ \E d \in UpdateDicts : UpdateDict(d)
    \/ \E u \in Objs : UpdateSegment(u)

Spec == Init /\ [][Next]_vars

(* ---------------------------------------------------------------------- *)
(* Claims                                                                  *)
(* ---------------------------------------------------------------------- *)
Data(t) == seg[t].data

Names(t) == seg[t].names

(* C1: once a Segment is constructed, and after any item-assignments       *)
(* (successful or rejected) and update calls, data has an entry for every  *)
(* name in names.                                                          *)
C1_DataCoversNames ==
    \A t \in Objs : Bound(t) => Range(Names(t)) \subseteq DOMAIN Data(t)

(* a rejected item-assignment on a segment that an update has extended *)
C1_Witness ==
    /\ Bound("a")
    /\ last.op = "__setitem__"
    /\ last.res = UnknownFeatureName
    /\ Kx \in DOMAIN Data("a")
    /\ Names("a") = VnV
    /\ Range(Names("a")) \subseteq DOMAIN Data("a")

(* C2: an item-assignment on a name outside names fails with the           *)
(* unknown-feature-name error and leaves data unchanged; on a name in      *)
(* names it succeeds and the following get(name) returns the value.        *)
C2_SetItem ==
    [][last'.op = "__setitem__" =>
          LET key == last'.args[1]
              value == last'.args[2]
          IN  IF key \in Range(Names("a"))
              THEN /\ last'.res = Ok(PyNone)
                   /\ __getitem__(seg'["a"], key) = Ok(value)
              ELSE /\ last'.res = UnknownFeatureName
                   /\ seg' = seg]_vars

(* a rejected assignment after a successful one (only item-assignment     *)
(* stores 2 under v)                                                       *)
C2_Witness ==
    /\ Bound("a")
    /\ last.op = "__setitem__"
    /\ last.res = UnknownFeatureName
    /\ Names("a") = VnV
    /\ Data("a")[Kv] = I(2)

QuotEq(r, n, d) == IsOk(r) /\ r.ok.den # 0 /\ r.ok.num * d = n * r.ok.den

(* C3: for the schema [voice, nasal, round], a made from the notation      *)
(* "+voice-nasal0round" and b from "-voice-nasal0round": a.numeric() is    *)
(* [1, -1, 0], b.numeric() is [-1, -1, 0], a.distance(b) is 2,             *)
(* a.hamming_distance(b) is 1, a.norm_distance(b) is 2/3 and repr(a) is    *)
(* "[+voice, -nasal, 0round]".                                             *)
C3_Example ==
    (/\ src["a"] = Args(VNR, EmptyDict, NotationA)
     /\ src["b"] = Args(VNR, EmptyDict, NotationB))
    => /\ numeric(seg["a"]) = Ok(<<I(1), I(-1), I(0)>>)
       /\ numeric(seg["b"]) = Ok(<<I(-1), I(-1), I(0)>>)
       /\ distance(seg["a"], seg["b"]) = Ok(I(2))
       /\ hamming_distance(seg["a"], seg["b"]) = Ok(I(1))
       /\ QuotEq(norm_distance(seg["a"], seg["b"]), 2, 3)
       /\ __repr__(seg["a"]) =
              Ok(<<"[", "+">> \o voice \o <<",", " ", "-">> \o nasal
                 \o <<",", " ", "0">> \o round \o <<"]">>)

(* the (name, value) mappings given to match: those over stored keys *)
MatchArgs(t) ==
    {d \in UpdateDicts \cup {EmptyDict, Kv :> I(-1)} : DOMAIN d \subseteq DOMAIN Data(t)}

(* C4: match(other), and >=, returns true iff for every (name, value) pair *)
(* of other the stored value for that name equals value.                   *)
C4_Match ==
    \A t \in Objs : Bound(t) =>
        \A other \in MatchArgs(t) :
            /\ match(seg[t], other) = Ok(\A k \in DOMAIN other : Data(t)[k] = other[k])
            /\ __ge__(seg[t], other) = match(seg[t], other)

(* the pairs that occur identically in both mappings *)
SharedPairs(d, e) ==
    [k \in {x \in DOMAIN d \cap DOMAIN e : d[x] = e[x]} |-> d[k]]

(* C5: a.intersection(b), and a & b, is exactly the mapping of the pairs   *)
(* that occur identically in a.data and b.data (a name with different      *)
(* values is absent), and equals b.intersection(a).                        *)
C5_Intersection ==
    \A t, u \in Objs : (Bound(t) /\ Bound(u)) =>
        /\ intersection(seg[t], seg[u]) = Ok(SharedPairs(Data(t), Data(u)))
        /\ __and__(seg[t], seg[u]) = intersection(seg[t], seg[u])
        /\ intersection(seg[t], seg[u]) = intersection(seg[u], seg[t])

(* two segments that agree on one name and differ on another *)
C5_Witness ==
    /\ Bound("a") /\ Bound("b")
    /\ \E k \in DOMAIN Data("a") \cap DOMAIN Data("b") : Data("a")[k] # Data("b")[k]
    /\ \E k \in DOMAIN Data("a") \cap DOMAIN Data("b") : Data("a")[k] = Data("b")[k]
    /\ nops > 0

(* each symbol of a string() result through the symbol-to-number table *)
Decode(syms) == [i \in 1..Len(syms) |-> s2n[syms[i]]]

RoundTrips(s) == IsOk(string(s)) /\ Ok(Decode(string(s).ok)) = numeric(s)

(* C6 as claimed: for every segment reachable by construction, set and    *)
(* update, decoding s.string() through the symbol-to-number table gives    *)
(* s.numeric().                                                            *)
C6_RoundTripAlways == \A t \in Objs : Bound(t) => RoundTrips(seg[t])

InTable(s) == \A k \in Range(s.names) : s.data[k] \in DOMAIN n2s

(* C6 as amended: the round trip holds for every reachable segment whose   *)
(* values under names are all -1, 0 or 1; for any other reachable segment  *)
(* string() raises the missing-key error.                                  *)
C6_RoundTripInTable ==
    \A t \in Objs : Bound(t) =>
        IF InTable(seg[t]) THEN RoundTrips(seg[t]) ELSE string(seg[t]) = MissingKey

(* a segment changed by set or update whose symbols are not all '0' *)
C6_Witness ==
    /\ Bound("a")
    /\ nops > 0
    /\ InTable(seg["a"])
    /\ RoundTrips(seg["a"])
    /\ \E i \in 1..Len(Names("a")) : string(seg["a"]).ok[i] = "-"

(* what C7 names: numeric, string, iteration, items, repr and the four     *)
(* distance metrics, taken against each bound segment in both positions    *)
Observed(s, others) ==
    <<numeric(s), string(s), __iter__(s), items(s), iteritems(s), __repr__(s),
      [o \in others |-> <<distance(s, o), norm_distance(s, o),
                          hamming_distance(s, o), norm_hamming_distance(s, o),
                          distance(o, s), norm_distance(o, s),
                          hamming_distance(o, s), norm_hamming_distance(o, s)>>]>>

(* C7: an update that injects only keys outside names leaves numeric(),    *)
(* string(), iteration, items(), repr and the four distance metrics of the *)
(* segment unchanged.                                                      *)
C7_UpdateFrame ==
    [][(/\ last'.op = "update"
        /\ "dict" \in DOMAIN last'.args
        /\ DOMAIN last'.args.dict \cap Range(Names("a")) = {})
       => LET others == {seg[u] : u \in {x \in Objs : x # "a" /\ Bound(x)}}
          IN  /\ Observed(seg'["a"], others) = Observed(seg["a"], others)
              /\ distance(seg'["a"], seg'["a"]) = distance(seg["a"], seg["a"])
              /\ DOMAIN last'.args.dict \subseteq DOMAIN seg'["a"].data]_vars

(* an update has stored x, which is no name of the segment *)
C7_Witness ==
    /\ Bound("a") /\ Bound("b")
    /\ last.op = "update"
    /\ "dict" \in DOMAIN last.args
    /\ DOMAIN last.args.dict \cap Range(Names("a")) = {}
    /\ Names("a") # NoNames
    /\ Kx \in DOMAIN Data("a")

(* C8: for a schema N and a mapping F with keys in N, Segment(N, F) with   *)
(* empty notation reads F[name] for a name in F and 0 for any other name   *)
(* of N.                                                                   *)
C8_ConstructReads ==
    \A t \in Objs :
        (/\ src[t] # NoArgs
         /\ src[t].ftstr = EmptyStr
         /\ DOMAIN src[t].features \subseteq Range(src[t].names))
        => \A name \in Range(src[t].names) :
               __getitem__(seg[t], name) =
                   Ok(IF name \in DOMAIN src[t].features
                      THEN src[t].features[name] ELSE I(0))

(* a segment made from a mapping that gives one of its two names *)
C8_Witness ==
    /\ src["a"] # NoArgs
    /\ src["a"].ftstr = EmptyStr
    /\ src["a"].names = VnV
    /\ DOMAIN src["a"].features = {Kv}
    /\ Bound("a")

(* C9: s.update(t), t a Segment, makes s match t: afterwards s stores,     *)
(* for every feature name of t, t's value for that name.                   *)
C9_UpdateFromSegment ==
    (last.op = "update" /\ "segment" \in DOMAIN last.args)
    => LET t == last.args.segment
       IN  /\ last.res = Ok(PyNone)
           /\ \A k \in Range(t.names) : __getitem__(seg["a"], k) = Ok(t.data[k])

(* the sum of absolute differences of the values stored under names *)
L1(s, o) ==
    SumTo([i \in 1..Len(s.names) |->
              Abs(s.data[s.names[i]].int - o.data[o.names[i]].int)], Len(s.names))

AllInts(s) == \A k \in Range(s.names) : IsInt(s.data[k])

Comparable(t, u) ==
    /\ Bound(t) /\ Bound(u)
    /\ Names(t) = Names(u)
    /\ AllInts(seg[t]) /\ AllInts(seg[u])

(* C10 as claimed: for two conformant segments over the same schema, the   *)
(* empty one included, norm_distance (and a - b) returns distance divided  *)
(* by len(names).                                                          *)
C10_NormDistanceAlways ==
    \A t, u \in Objs : Comparable(t, u) =>
        /\ QuotEq(norm_distance(seg[t], seg[u]), L1(seg[t], seg[u]), Len(Names(t)))
        /\ __sub__(seg[t], seg[u]) = norm_distance(seg[t], seg[u])

(* C10 as amended: over a schema that is not empty norm_distance (and     *)
(* a - b) returns distance divided by len(names), distance being the sum   *)
(* of absolute differences; over the empty schema it raises               *)
(* ZeroDivisionError.                                                      *)
C10_NormDistanceNonEmpty ==
    \A t, u \in Objs : Comparable(t, u) =>
        /\ distance(seg[t], seg[u]) = Ok(I(L1(seg[t], seg[u])))
        /\ IF Names(t) = NoNames
           THEN norm_distance(seg[t], seg[u]) = Raise("ZeroDivisionError")
           ELSE QuotEq(norm_distance(seg[t], seg[u]), L1(seg[t], seg[u]),
                       Len(Names(t)))
        /\ __sub__(seg[t], seg[u]) = norm_distance(seg[t], seg[u])

(* two segments over two names at distance 1: the quotient is no integer *)
C10_Witness ==
    /\ Comparable("a", "b")
    /\ Len(Names("a")) = 2
    /\ distance(seg["a"], seg["b"]) = Ok(I(1))
    /\ QuotEq(norm_distance(seg["a"], seg["b"]), 1, 2)

====
